---- MODULE Spec2Model ----
(***************************************************************************)
(* Book pre-order storefront (Cresvia-Grazia/PreOrderSys_01).              *)
(*                                                                         *)
(* The repository holds three independent front ends:                      *)
(*   - App               (src/index.jsx 39-281): React form that posts the *)
(*                        order to a spreadsheet-backed endpoint;          *)
(*   - BookPreorderSite  (src/index.jsx 505-...): client-local variant     *)
(*                        with discounts and a printable slip;             *)
(*   - script.js         (src/script.js): vanilla script driving a page.   *)
(* Each run of the model is one browsing session of one of them; the       *)
(* variable `variant` says which.  A fourth kind of run, "fn", applies the *)
(* pure function discounted() to inputs drawn from bounded sets, and a     *)
(* fifth, "filter", does the same with App's `filtered` computation.       *)
(***************************************************************************)
EXTENDS Integers, Sequences, FiniteSets, TLC

VARIABLES
    variant,        \* which front end this session runs
    alert,          \* text of the alert() raised by the last handler, or "none"
    \* ---- App (index.jsx 39-281)
    appSheetId,     \* useState sheetId
    appBooks,       \* useState books, while it holds a list
    appBooksObject, \* books holds a JSON object that is no list (appBooks is then <<>>)
    appLoading,     \* useState loading
    appError,       \* useState error ("null" when null)
    appFetches,     \* catalog fetches in flight (their sheetIds, oldest first)
    appCart,        \* useState cart: sequence of [id, price, qty]
    appFields,      \* checkout fields: fullName,email,phone,fbName,pickup,paymentFile,notes
    appSubmitting,  \* useState submitting
    appSuccessMsg,  \* useState successMsg
    appReqs,        \* order requests in flight (POST /reserve)
    \* ---- BookPreorderSite (index.jsx 505-566)
    bpsCatalog,     \* useState catalog: sequence of [id, price, discountPct]
    bpsCart,        \* useState cart: sequence of [book, qty]
    bpsTotal,       \* useMemo total, recomputed when cart changes
    \* ---- script.js
    jsFetch,        \* state of the one catalog fetch: "pending", "done", "failed"
    jsBooks,        \* let books, while it holds a list
    jsBooksObject,  \* books holds a JSON object that is no list (jsBooks is then <<>>)
    jsCart,         \* let cart: sequence of [book (index into books), quantity]
    jsCheckoutShown,\* checkoutBtn.style.display = "block"
    jsFormShown,    \* customerForm.style.display = "block"
    jsForm,         \* the order form's fields, as a whole: "blank" or "filled"
    jsReqs,         \* order requests in flight (POST API_URL)
    \* ---- pure-function harness
    fnBook,         \* the book discounted() is applied to
    fnOut,          \* <<its result>>, or <<>> before it is applied
    flBooks,        \* the catalog `filtered` is computed from
    flSpec,         \* the filter inputs: q, genre, location, minPrice, maxPrice
    flOut,          \* <<the filtered list>>, or <<>> before it is computed
    updKind,        \* whose addToCart updater is applied: "App", "BookPreorderSite"
    updBook,        \* the book addToCart was called with
    updObjects,     \* the item objects that exist; an object's address is its index
    updPrev,        \* the cart value the updater is given: addresses of its items
    updOut,         \* the values the updater returned, one per application
    updGiven,       \* the items of updPrev as they were before the updater ran
    \* ---- observers
    watch,          \* what this session observes: "off", "cart" or "wire"
    removed,        \* <<the item most recently removed from the cart>>, or <<>>
    lastCall        \* <<the call by book id just made>>, or <<>>

appVars == <<appSheetId, appBooks, appBooksObject, appLoading, appError, appFetches, appCart,
             appFields, appSubmitting, appSuccessMsg, appReqs>>
bpsVars == <<bpsCatalog, bpsCart, bpsTotal>>
jsVars  == <<jsFetch, jsBooks, jsBooksObject, jsCart, jsCheckoutShown, jsFormShown, jsForm, jsReqs>>
fnVars  == <<fnBook, fnOut>>
flVars  == <<flBooks, flSpec, flOut>>
updVars == <<updKind, updBook, updObjects, updPrev, updOut, updGiven>>
obsVars == <<removed, lastCall>>
vars    == <<variant, alert, appVars, bpsVars, jsVars, fnVars, flVars, updVars, watch,
             obsVars>>

(***************************************************************************)
(* Bounds of the model.                                                    *)
(***************************************************************************)
MaxQty      == 2    \* the "+" buttons and typed quantities stop here
MaxFetches  == 1    \* catalog fetches in flight at once (App)
MaxOverlap  == 2    \* catalog fetches in flight while the sheet id is retyped
MaxInFlight == 2    \* order requests in flight at once
MaxCustom   == 1    \* custom books added to the BookPreorderSite catalog
MaxCartLen  == 2    \* distinct books put into one cart
MaxPrice    == 60   \* prices fed to discounted() by the harness
MaxCatalog  == 3    \* books in a catalog fed to `filtered`
MaxApply    == 2    \* times React applies one updater to one cart value

(***************************************************************************)
(* JavaScript numbers.  Quantities and amounts are integers or NaN; NaN is *)
(* kept apart from every integer the model computes and is absorbing in    *)
(* arithmetic, false in comparisons.                                       *)
(***************************************************************************)
NaN == -1000000

IsNaN(x) == x = NaN

JsAdd(a, b) == IF IsNaN(a) \/ IsNaN(b) THEN NaN ELSE a + b
JsMul(a, b) == IF IsNaN(a) \/ IsNaN(b) THEN NaN ELSE a * b
JsGt(a, b)  == ~IsNaN(a) /\ ~IsNaN(b) /\ a > b

\* Math.max(a, b): NaN when either argument is NaN
MathMax(a, b) == IF IsNaN(a) \/ IsNaN(b) THEN NaN ELSE IF a >= b THEN a ELSE b
MathMin(a, b) == IF IsNaN(a) \/ IsNaN(b) THEN NaN ELSE IF a <= b THEN a ELSE b

\* x || 0 on a number: 0 and NaN are falsy
OrZero(x) == IF IsNaN(x) \/ x = 0 THEN 0 ELSE x

(***************************************************************************)
(* Values a JSON catalog delivers in a numeric field: a number, a numeric  *)
(* string, a non-numeric string, or nothing (undefined).                   *)
(***************************************************************************)
Num(n)    == <<"num", n>>
NumStr(n) == <<"numstr", n>>     \* the string that spells n, e.g. "50"
Text      == <<"text", 0>>       \* a non-empty string that spells no number
Undef     == <<"undef", 0>>

\* Number(v)
ToNumber(v) ==
    CASE v[1] = "num"    -> v[2]
      [] v[1] = "numstr" -> v[2]
      [] v[1] = "text"   -> NaN
      [] v[1] = "undef"  -> NaN

\* truthiness of v: undefined and the number 0 are falsy, non-empty strings truthy
Truthy(v) ==
    CASE v[1] = "num"    -> v[2] # 0
      [] v[1] = "numstr" -> TRUE
      [] v[1] = "text"   -> TRUE
      [] v[1] = "undef"  -> FALSE

\* a || b on such values
JsOr(a, b) == IF Truthy(a) THEN a ELSE b

(***************************************************************************)
(* Text typed into a quantity input, and Number() of it.                   *)
(***************************************************************************)
QtyTexts == {"", "0", "-1", "abc"} \cup {"1", "2", "3"}

NumberOfText(t) ==
    CASE t = ""    -> 0
      [] t = "0"   -> 0
      [] t = "-1"  -> -1
      [] t = "1"   -> 1
      [] t = "2"   -> 2
      [] t = "3"   -> 3
      [] t = "abc" -> NaN

\* a number input hands its handler "" for text that spells no number
NumberInputValue(t) == IF IsNaN(NumberOfText(t)) THEN "" ELSE t

(***************************************************************************)
(* Sequence helpers (Array.prototype).                                     *)
(***************************************************************************)
RECURSIVE SelectSeqBy(_, _)
\* Array.filter with the predicate given as the set of elements kept
SelectSeqBy(s, keep) ==
    IF s = <<>> THEN <<>>
    ELSE IF Head(s) \in keep THEN <<Head(s)>> \o SelectSeqBy(Tail(s), keep)
    ELSE SelectSeqBy(Tail(s), keep)

Range(s) == {s[i] : i \in DOMAIN s}

\* Array.findIndex: least index satisfying, 0 for "not found" (-1 in JS)
FindIndexById(c, id) ==
    IF \E i \in DOMAIN c : c[i].id = id
    THEN CHOOSE i \in DOMAIN c : c[i].id = id /\ \A j \in DOMAIN c : c[j].id = id => i <= j
    ELSE 0

(***************************************************************************)
(* The carts of the three front ends, seen alike: a sequence of            *)
(* [id, qty], in cart order.                                               *)
(***************************************************************************)
AppItems == [i \in DOMAIN appCart |-> [id |-> appCart[i].id, qty |-> appCart[i].qty]]
BpsItems == [i \in DOMAIN bpsCart |-> [id |-> bpsCart[i].book.id, qty |-> bpsCart[i].qty]]
JsItems  == [i \in DOMAIN jsCart |->
                [id |-> jsBooks[jsCart[i].book].id, qty |-> jsCart[i].quantity]]

HasId(items, id) == \E i \in DOMAIN items : items[i].id = id

(***************************************************************************)
(* Observers.  They are no state of the program: in the sessions that      *)
(* switch them on they record what the user saw happen, and elsewhere they *)
(* stay as they start.                                                     *)
(*   watch = "cart"  `removed` holds the item most recently removed from   *)
(*                   the cart, `lastCall` the call just made with a book   *)
(*                   id that need not be in the cart;                      *)
(*   watch = "wire"  the order requests in flight are kept with their      *)
(*                   bodies, elsewhere only their number is kept.          *)
(***************************************************************************)
\* the cart of the session's front end
CartItems ==
    CASE variant = "App"              -> AppItems
      [] variant = "BookPreorderSite" -> BpsItems
      [] variant = "script"           -> JsItems
      [] OTHER                        -> <<>>

NoCall == <<>>

\* closes a handler's step: records a removal, and the call if it was one by id
Observer(call) ==
    IF watch = "cart"
    THEN /\ removed' =
               IF \E i \in DOMAIN CartItems : ~HasId(CartItems', CartItems[i].id)
               THEN <<CHOOSE it \in Range(CartItems) : ~HasId(CartItems', it.id)>>
               ELSE removed
         /\ lastCall' = call
    ELSE UNCHANGED <<removed, lastCall>>

Unobserved == watch = "off" /\ removed = <<>> /\ lastCall = NoCall

\* what is kept of an order request in flight
Wire(body, token) == IF watch = "wire" THEN body ELSE token

\* JSON.stringify of a number: NaN is written as null
Null == <<"null", 0>>

JsonOfNumber(x) == IF IsNaN(x) THEN Null ELSE Num(x)

(***************************************************************************)
(* App: data.                                                              *)
(***************************************************************************)
\* Book lists the catalog endpoint can answer with (ids unique within a list;
\* a reload may deliver an id again with another price).
AppCatalogA ==
    << [id |-> "b1", title |-> "T1", author |-> "A1", price |-> Num(100)],
       [id |-> "b2", title |-> "T2", author |-> "A2", price |-> Text] >>

AppCatalogB ==
    << [id |-> "b1", title |-> "T1", author |-> "A1", price |-> NumStr(50)],
       [id |-> "b2", title |-> "T2", author |-> "A2", price |-> Undef] >>

AppCatalogs == {AppCatalogA, AppCatalogB}

AppTextFields == {"fullName", "email", "phone", "fbName", "notes"}
AppFieldNames == AppTextFields \cup {"pickup", "paymentFile"}

\* the useState initial values of the checkout fields
AppFieldInit ==
    [f \in AppFieldNames |->
        CASE f = "pickup"      -> "Feast ayala - Sunday"
          [] f = "paymentFile" -> "null"
          [] OTHER             -> ""]

\* what the user can put into a field
AppFieldValues(f) ==
    CASE f = "pickup"      -> {"Feast ayala - Sunday", "Feast it park - Saturday"}
      [] f = "paymentFile" -> {"null", "proof.png"}
      [] OTHER             -> {"", "x"}

\* the inputs marked `required`: the browser submits the form only when filled
AppRequiredFilled(fields) ==
    fields["fullName"] # "" /\ fields["email"] # "" /\ fields["phone"] # ""

\* The user's way through the form: the required inputs top to bottom
\* (the browser's validation stops at the first empty one), the optional
\* inputs once the required ones are filled; the pickup select at any time.
FormFillOrder(fields) ==
    /\ fields["email"] # "" => fields["fullName"] # ""
    /\ fields["phone"] # "" => fields["email"] # ""
    /\ (\E f \in {"fbName", "notes", "paymentFile"} : fields[f] # AppFieldInit[f])
          => AppRequiredFilled(fields)

\* How an order request can end:
\*   reject      the fetch promise rejects (transport error)
\*   notok       a non-OK status whose body is no JSON
\*   notok_json  a non-OK status with a JSON body
\*   badjson     status OK, the body is no JSON
\*   ack         status OK, {ok: true, message / orderId} (doPost, line 385)
\*   ack_nomsg   status OK, an acknowledgement without message / orderId
\*   error       status OK, {error: ...}: doPost caught an exception (line 387)
Outcomes == {"reject", "notok", "notok_json", "badjson", "ack", "ack_nomsg", "error"}

\* the collaborator accepted the order
Accepted(o) == o \in {"ack", "ack_nomsg"}

(***************************************************************************)
(* App: cart updaters and derived amounts.                                 *)
(***************************************************************************)
\* addToCart without the lookup by id: always inserts
AppAddUpdaterAppend(c, book) ==
    Append(c, [id |-> book.id, title |-> book.title, author |-> book.author,
               price |-> book.price, qty |-> 1])

\* the setCart updater of addToCart
AppAddUpdater(c, book) ==
    LET i == FindIndexById(c, book.id) IN
    IF i > 0
    THEN [c EXCEPT ![i].qty = JsAdd(@, 1)]
    ELSE Append(c, [id |-> book.id, title |-> book.title, author |-> book.author,
                    price |-> book.price, qty |-> 1])

\* the setCart updater of updateQty
AppUpdateQtyUpdater(c, id, qty) ==
    [i \in DOMAIN c |->
        IF c[i].id = id THEN [c[i] EXCEPT !.qty = MathMax(1, qty)] ELSE c[i]]

\* removeFromCart that keeps the item
AppRemoveUpdaterSoft(c, id) == c

\* the setCart updater of removeFromCart
AppRemoveUpdater(c, id) ==
    SelectSeqBy(c, {it \in Range(c) : it.id # id})

RECURSIVE AppReduceSubtotal(_, _)
\* cart.reduce((s, it) => s + (Number(it.price) || 0) * it.qty, s0)
AppReduceSubtotal(c, s) ==
    IF c = <<>> THEN s
    ELSE AppReduceSubtotal(Tail(c),
            JsAdd(s, JsMul(OrZero(ToNumber(Head(c).price)), Head(c).qty)))

AppSubtotal(c) == AppReduceSubtotal(c, 0)

\* the amount shown on a cart line: it.qty * Number(it.price || 0)
AppLineAmount(it) == JsMul(it.qty, ToNumber(JsOr(it.price, Num(0))))

(***************************************************************************)
(* App: handlers.                                                          *)
(***************************************************************************)
AppOthers == UNCHANGED <<variant, watch, bpsVars, jsVars, fnVars, flVars, updVars>> /\ Observer(NoCall)

\* Every render computes `filtered` with books.filter (line 82): when books
\* holds an object that is no list the render throws, and React, having no
\* error boundary here, unmounts the whole view.
AppCrashed == appBooksObject

\* an App session whose view is mounted
AppMounted == variant = "App" /\ ~AppCrashed

\* sheetId input onChange, and the effect that depends on sheetId; the
\* session has at most n catalog fetches in flight at a time
AppSetSheetIdUpTo(s, n) ==
    /\ AppMounted
    /\ s # appSheetId
    /\ appSheetId' = s
    /\ IF s = ""
       THEN UNCHANGED <<appLoading, appError, appFetches>>
       ELSE /\ Len(appFetches) < n
            /\ appLoading' = TRUE
            /\ appError' = "null"
            /\ appFetches' = Append(appFetches, s)
    /\ alert' = "none"
    /\ UNCHANGED <<appBooks, appBooksObject, appCart, appFields, appSubmitting, appSuccessMsg, appReqs>>
    /\ AppOthers

AppSetSheetId(s) == AppSetSheetIdUpTo(s, MaxFetches)

RemoveAt(s, i) == [j \in 1..(Len(s) - 1) |-> IF j < i THEN s[j] ELSE s[j + 1]]

\* fetchBooks(sheetId) fulfils with a book list
AppFetchOk(i, data) ==
    /\ AppMounted
    /\ i \in DOMAIN appFetches
    /\ appFetches' = RemoveAt(appFetches, i)
    /\ appBooks' = data
    /\ appBooksObject' = FALSE
    /\ appLoading' = FALSE
    /\ alert' = "none"
    /\ UNCHANGED <<appSheetId, appError, appCart, appFields, appSubmitting,
                   appSuccessMsg, appReqs>>
    /\ AppOthers

\* err.message of the three ways fetchBooks(sheetId) rejects: the fetch
\* itself (transport), the check of r.ok, and r.json() (unparsable body)
AppFetchErrors == {"Failed to fetch", "Failed to fetch books",
                   "Unexpected end of JSON input"}

\* fetchBooks(sheetId) rejects: transport error, non-OK status, unparsable body
AppFetchFail(i, msg) ==
    /\ AppMounted
    /\ i \in DOMAIN appFetches
    /\ appFetches' = RemoveAt(appFetches, i)
    /\ appError' = msg
    /\ appLoading' = FALSE
    /\ alert' = "none"
    /\ UNCHANGED <<appSheetId, appBooks, appBooksObject, appCart, appFields, appSubmitting,
                   appSuccessMsg, appReqs>>
    /\ AppOthers

\* what the endpoint holds for a sheet id: doGet answers with the rows of
\* the sheet's Book Inventory tab; a sheet id that opens no spreadsheet makes
\* openById throw, and the request ends with a status that is not OK
SheetAnswer(s) ==
    CASE s = "s1" -> [kind |-> "list", data |-> AppCatalogA, msg |-> ""]
      [] s = "s2" -> [kind |-> "list", data |-> AppCatalogB, msg |-> ""]
      [] OTHER    -> [kind |-> "fail", data |-> <<>>,
                      msg |-> "Failed to fetch books"]

\* the i-th catalog fetch in flight settles with the answer for its sheet id
AppSheetAnswers(i) ==
    /\ i \in DOMAIN appFetches
    /\ LET a == SheetAnswer(appFetches[i]) IN
       IF a.kind = "list" THEN AppFetchOk(i, a.data)
       ELSE AppFetchFail(i, a.msg)

\* fetchBooks(sheetId) fulfils with a JSON object that is no list, such as
\* doGet's {error: 'Book Inventory tab not found'}: setBooks(data || [])
AppFetchObject(i) ==
    /\ AppMounted
    /\ i \in DOMAIN appFetches
    /\ appFetches' = RemoveAt(appFetches, i)
    /\ appBooks' = <<>>
    /\ appBooksObject' = TRUE
    /\ appLoading' = FALSE
    /\ alert' = "none"
    /\ UNCHANGED <<appSheetId, appError, appCart, appFields, appSubmitting,
                   appSuccessMsg, appReqs>>
    /\ AppOthers

AppCartFrame ==
    /\ alert' = "none"
    /\ UNCHANGED <<appSheetId, appBooks, appBooksObject, appLoading, appError, appFetches,
                   appFields, appSubmitting, appSuccessMsg, appReqs>>
    /\ AppOthers

\* the book grid is rendered only when neither loading nor error
AppGridShown == ~appLoading /\ appError = "null"

\* "Add" button of a book card
AppAddToCart(book) ==
    /\ AppMounted
    /\ AppGridShown
    /\ book \in Range(appBooks)
    /\ \A it \in Range(appCart) : it.id = book.id => JsGt(MaxQty, it.qty) \/ IsNaN(it.qty)
    /\ (\E it \in Range(appCart) : it.id = book.id) \/ Len(appCart) < MaxCartLen
    /\ appCart' = AppAddUpdater(appCart, book)
    /\ AppCartFrame

\* "-" button of a cart line
AppQtyMinus(it) ==
    /\ AppMounted
    /\ it \in Range(appCart)
    /\ appCart' = AppUpdateQtyUpdater(appCart, it.id, JsAdd(it.qty, -1))
    /\ AppCartFrame

\* "+" button of a cart line
AppQtyPlus(it) ==
    /\ AppMounted
    /\ it \in Range(appCart)
    /\ JsGt(MaxQty, it.qty) \/ IsNaN(it.qty)
    /\ appCart' = AppUpdateQtyUpdater(appCart, it.id, JsAdd(it.qty, 1))
    /\ AppCartFrame

\* quantity input of a cart line (a text input): updateQty(it.id, Number(value))
AppQtyInput(it, text) ==
    /\ AppMounted
    /\ it \in Range(appCart)
    /\ ~JsGt(NumberOfText(text), MaxQty)
    /\ appCart' = AppUpdateQtyUpdater(appCart, it.id, NumberOfText(text))
    /\ AppCartFrame

\* "Remove" button of a cart line
AppRemoveFromCart(it) ==
    /\ AppMounted
    /\ it \in Range(appCart)
    /\ appCart' = AppRemoveUpdater(appCart, it.id)
    /\ AppCartFrame

\* updateQty(id, qty) called with any book id, in the cart or not (a call
\* left over from a cart line that has since been removed)
AppUpdateQtyCall(id, qty) ==
    /\ AppMounted
    /\ ~JsGt(qty, MaxQty)
    /\ appCart' = AppUpdateQtyUpdater(appCart, id, qty)
    /\ alert' = "none"
    /\ UNCHANGED <<appSheetId, appBooks, appBooksObject, appLoading, appError,
                   appFetches, appFields, appSubmitting, appSuccessMsg, appReqs>>
    /\ UNCHANGED <<variant, watch, bpsVars, jsVars, fnVars, flVars, updVars>>
    /\ Observer(<<[op |-> "updateQty", id |-> id]>>)

\* removeFromCart(id) called with any book id, in the cart or not
AppRemoveFromCartCall(id) ==
    /\ AppMounted
    /\ appCart' = AppRemoveUpdater(appCart, id)
    /\ alert' = "none"
    /\ UNCHANGED <<appSheetId, appBooks, appBooksObject, appLoading, appError,
                   appFetches, appFields, appSubmitting, appSuccessMsg, appReqs>>
    /\ UNCHANGED <<variant, watch, bpsVars, jsVars, fnVars, flVars, updVars>>
    /\ Observer(<<[op |-> "removeFromCart", id |-> id]>>)

\* onChange of a checkout field
AppSetField(f, v) ==
    /\ AppMounted
    /\ appFields[f] # v
    /\ FormFillOrder([appFields EXCEPT ![f] = v])
    /\ appFields' = [appFields EXCEPT ![f] = v]
    /\ alert' = "none"
    /\ UNCHANGED <<appSheetId, appBooks, appBooksObject, appLoading, appError, appFetches, appCart,
                   appSubmitting, appSuccessMsg, appReqs>>
    /\ AppOthers

\* JSON of cart.map(({id, title, author, qty, price}) => ({...})); a price
\* that is undefined is left out by JSON.stringify and stays Undef here
AppCartJson(c) ==
    [i \in DOMAIN c |->
        [id |-> c[i].id, title |-> c[i].title, author |-> c[i].author,
         qty |-> JsonOfNumber(c[i].qty), price |-> c[i].price]]

\* the FormData of submitOrder
AppOrderBody ==
    [sheetId |-> appSheetId,
     fullName |-> appFields["fullName"], email |-> appFields["email"],
     phone |-> appFields["phone"], fbName |-> appFields["fbName"],
     pickup |-> appFields["pickup"], notes |-> appFields["notes"],
     cart |-> AppCartJson(appCart),
     paymentFile |-> appFields["paymentFile"]]

\* submitOrder without its check of cart.length
AppSubmitOrderUnchecked ==
    /\ AppMounted
    /\ ~appSubmitting
    /\ AppRequiredFilled(appFields)
    /\ Len(appReqs) < MaxInFlight
    /\ appSubmitting' = TRUE
    /\ appSuccessMsg' = ""
    /\ appReqs' = Append(appReqs, Wire(AppOrderBody, "reserve"))
    /\ alert' = "none"
    /\ UNCHANGED <<appSheetId, appBooks, appBooksObject, appLoading, appError, appFetches, appCart,
                   appFields>>
    /\ AppOthers

\* form onSubmit -> submitOrder, up to the await.  The submit button is
\* disabled while submitting, and the browser validates the required inputs.
AppSubmitOrder ==
    /\ AppMounted
    /\ ~appSubmitting
    /\ AppRequiredFilled(appFields)
    /\ IF Len(appCart) = 0
       THEN /\ alert' = "Your cart is empty."
            /\ UNCHANGED <<appSubmitting, appSuccessMsg, appReqs>>
       ELSE /\ Len(appReqs) < MaxInFlight
            /\ appSubmitting' = TRUE
            /\ appSuccessMsg' = ""
            /\ appReqs' = Append(appReqs, Wire(AppOrderBody, "reserve"))
            /\ alert' = "none"
    /\ UNCHANGED <<appSheetId, appBooks, appBooksObject, appLoading, appError, appFetches, appCart,
                   appFields>>
    /\ AppOthers

\* what the catch block alerts for a failed request
AppFailureText(o) ==
    CASE o = "reject"     -> "Failed to fetch"
      [] o = "notok"      -> "Failed to submit order"
      [] o = "notok_json" -> "Failed to submit order"
      [] o = "badjson"    -> "Unexpected end of JSON input"

\* data.message || "Order submitted. Thank you!"
AppSuccessText(o) ==
    IF o = "ack" THEN "Order saved" ELSE "Order submitted. Thank you!"

\* does submitOrder take its catch branch for this outcome
AppThrows(o) == o \in {"reject", "notok", "notok_json", "badjson"}

\* submitOrder after the await: the request resolves with outcome o
AppSubmitResolve(i, o) ==
    /\ AppMounted
    /\ i \in DOMAIN appReqs
    /\ appReqs' = RemoveAt(appReqs, i)
    /\ IF AppThrows(o)
       THEN /\ alert' = AppFailureText(o)
            /\ UNCHANGED <<appCart, appFields, appSuccessMsg>>
       ELSE /\ appSuccessMsg' = AppSuccessText(o)
            /\ appCart' = <<>>
            /\ appFields' = [f \in AppFieldNames |->
                                IF f = "pickup" THEN appFields[f]
                                ELSE AppFieldInit[f]]
            /\ alert' = "none"
    /\ appSubmitting' = FALSE
    /\ UNCHANGED <<appSheetId, appBooks, appBooksObject, appLoading, appError, appFetches>>
    /\ AppOthers

AppInit ==
    /\ appSheetId = ""
    /\ appBooks = <<>>
    /\ appBooksObject = FALSE
    /\ appLoading = FALSE
    /\ appError = "null"
    /\ appFetches = <<>>
    /\ appCart = <<>>
    /\ appFields = AppFieldInit
    /\ appSubmitting = FALSE
    /\ appSuccessMsg = ""
    /\ appReqs = <<>>

\* the handlers of App; the inputs of the session are drawn from
\*   sheets    the sheet ids typed         qtyTexts  the quantities typed
\*   fields    the checkout fields edited  outcomes  the order requests' ends
\*   errors    the ways a catalog fetch is seen to fail
AppNext(sheets, qtyTexts, fields, outcomes, errors) ==
    \/ \E s \in sheets \cup {""} : AppSetSheetId(s)
    \/ \E i \in 1..MaxFetches, data \in AppCatalogs : AppFetchOk(i, data)
    \/ \E i \in 1..MaxFetches, msg \in errors : AppFetchFail(i, msg)
    \/ \E i \in 1..MaxFetches : AppFetchObject(i)
    \/ \E b \in Range(appBooks) : AppAddToCart(b)
    \/ \E it \in Range(appCart) : AppQtyMinus(it)
    \/ \E it \in Range(appCart) : AppQtyPlus(it)
    \/ \E it \in Range(appCart), t \in qtyTexts : AppQtyInput(it, t)
    \/ \E it \in Range(appCart) : AppRemoveFromCart(it)
    \/ \E f \in fields : \E v \in AppFieldValues(f) : AppSetField(f, v)
    \/ AppSubmitOrder
    \/ \E i \in 1..MaxInFlight, o \in outcomes : AppSubmitResolve(i, o)

(***************************************************************************)
(* BookPreorderSite: data and pure functions.                              *)
(***************************************************************************)
SAMPLE_BOOKS ==
    << [id |-> "1", title |-> "How Good People Like You Can Become Rich",
        author |-> "Bo Sanchez", price |-> 385, discountPct |-> 20],
       [id |-> "2", title |-> "God, Why Does It Hurt?",
        author |-> "Bo Sanchez", price |-> 375, discountPct |-> 10],
       [id |-> "3", title |-> "Inside Matters",
        author |-> "Rissa Singson Kawpeng", price |-> 450, discountPct |-> 15],
       [id |-> "4", title |-> "Trailblazing Success",
        author |-> "Rex Mendoza", price |-> 385, discountPct |-> 0] >>

\* what the "add your own book" form can deliver: the id is
\* Math.random().toString(36).slice(2), price and discount are typed numbers
CustomIds    == {"c1", "1"}
CustomPrices == {100}
CustomPcts   == {20, 150}

\* truncation where Math.round belongs
MathFloorDiv(n, d) == n \div d

\* Math.round(n / d) for integers n and d > 0: halves round up
MathRoundDiv(n, d) == (2 * n + d) \div (2 * d)

\* discounted(book)
discounted(book) ==
    LET pct == MathMax(0, MathMin(100, OrZero(book.discountPct)))
    IN  MathRoundDiv(book.price * (100 - pct), 100)

RECURSIVE BpsReduceTotal(_, _)
\* cart.reduce((sum, it) => sum + discounted(it.book) * it.qty, sum0)
BpsReduceTotal(c, sum) ==
    IF c = <<>> THEN sum
    ELSE BpsReduceTotal(Tail(c), JsAdd(sum, JsMul(discounted(Head(c).book), Head(c).qty)))

\* the value useMemo computes for `total`
total(c) == BpsReduceTotal(c, 0)

\* the amount of a line of the order summary: item.qty * discounted(item.book)
BpsLineAmount(item) == JsMul(item.qty, discounted(item.book))

\* Array.findIndex((x) => x.book.id === id), 0 for "not found"
FindIndexByBookId(c, id) ==
    IF \E i \in DOMAIN c : c[i].book.id = id
    THEN CHOOSE i \in DOMAIN c :
            c[i].book.id = id /\ \A j \in DOMAIN c : c[j].book.id = id => i <= j
    ELSE 0

\* addToCart without the lookup by id: always inserts
BpsAddUpdaterAppend(prev, book) == Append(prev, [book |-> book, qty |-> 1])

\* the setCart updater of addToCart
BpsAddUpdater(prev, book) ==
    LET i == FindIndexByBookId(prev, book.id) IN
    IF i > 0
    THEN [prev EXCEPT ![i] = [@ EXCEPT !.qty = JsAdd(@, 1)]]
    ELSE Append(prev, [book |-> book, qty |-> 1])

\* setQty that clamps every item, whatever its book id
BpsSetQtyUpdaterAll(prev, bookId, qty) ==
    LET mapped == [i \in DOMAIN prev |-> [prev[i] EXCEPT !.qty = MathMax(1, qty)]]
    IN  SelectSeqBy(mapped, {x \in Range(mapped) : JsGt(x.qty, 0)})

\* the setCart updater of setQty: clamp, then drop items whose qty is not > 0
BpsSetQtyUpdater(prev, bookId, qty) ==
    LET mapped == [i \in DOMAIN prev |->
                      IF prev[i].book.id = bookId
                      THEN [prev[i] EXCEPT !.qty = MathMax(1, qty)]
                      ELSE prev[i]]
    IN  SelectSeqBy(mapped, {x \in Range(mapped) : JsGt(x.qty, 0)})

\* the setCart updater of removeItem
BpsRemoveUpdater(prev, bookId) ==
    SelectSeqBy(prev, {x \in Range(prev) : x.book.id # bookId})

(***************************************************************************)
(* BookPreorderSite: handlers.  Every setCart re-renders, and the render   *)
(* recomputes the memoized total because its dependency `cart` changed.    *)
(***************************************************************************)
BpsOthers == /\ alert' = "none"
             /\ UNCHANGED <<variant, watch, appVars, jsVars, fnVars, flVars, updVars>>
             /\ Observer(NoCall)

\* setCart(next) with a total that is not recomputed
BpsSetCartStale(next) ==
    /\ bpsCart' = next
    /\ UNCHANGED <<bpsTotal, bpsCatalog>>
    /\ BpsOthers

\* setCart(next) followed by the render
BpsSetCart(next) ==
    /\ bpsCart' = next
    /\ bpsTotal' = total(next)
    /\ UNCHANGED bpsCatalog
    /\ BpsOthers

\* click on a book card
BpsAddToCart(book) ==
    /\ variant = "BookPreorderSite"
    /\ book \in Range(bpsCatalog)
    /\ \A x \in Range(bpsCart) : x.book.id = book.id => x.qty < MaxQty
    /\ (\E x \in Range(bpsCart) : x.book.id = book.id) \/ Len(bpsCart) < MaxCartLen
    /\ BpsSetCart(BpsAddUpdater(bpsCart, book))

\* "-" button of a cart line
BpsQtyMinus(item) ==
    /\ variant = "BookPreorderSite"
    /\ item \in Range(bpsCart)
    /\ BpsSetCart(BpsSetQtyUpdater(bpsCart, item.book.id, JsAdd(item.qty, -1)))

\* "+" button of a cart line
BpsQtyPlus(item) ==
    /\ variant = "BookPreorderSite"
    /\ item \in Range(bpsCart)
    /\ item.qty < MaxQty
    /\ BpsSetCart(BpsSetQtyUpdater(bpsCart, item.book.id, JsAdd(item.qty, 1)))

\* quantity input of a cart line (type="number"): setQty(id, Number(value))
BpsQtyInput(item, text) ==
    /\ variant = "BookPreorderSite"
    /\ item \in Range(bpsCart)
    /\ ~JsGt(NumberOfText(text), MaxQty)
    /\ BpsSetCart(BpsSetQtyUpdater(bpsCart, item.book.id,
                                   NumberOfText(NumberInputValue(text))))

\* trash button of a cart line
BpsRemoveItem(item) ==
    /\ variant = "BookPreorderSite"
    /\ item \in Range(bpsCart)
    /\ BpsSetCart(BpsRemoveUpdater(bpsCart, item.book.id))

\* setCart(next) by a call that carries a book id, followed by the render
BpsSetCartByCall(next, call) ==
    /\ bpsCart' = next
    /\ bpsTotal' = total(next)
    /\ UNCHANGED bpsCatalog
    /\ alert' = "none"
    /\ UNCHANGED <<variant, watch, appVars, jsVars, fnVars, flVars, updVars>>
    /\ Observer(<<call>>)

\* setQty(bookId, qty) called with any book id, in the cart or not
BpsSetQtyCall(bookId, qty) ==
    /\ variant = "BookPreorderSite"
    /\ ~JsGt(qty, MaxQty)
    /\ BpsSetCartByCall(BpsSetQtyUpdater(bpsCart, bookId, qty),
                        [op |-> "setQty", id |-> bookId])

\* removeItem(bookId) called with any book id, in the cart or not
BpsRemoveItemCall(bookId) ==
    /\ variant = "BookPreorderSite"
    /\ BpsSetCartByCall(BpsRemoveUpdater(bpsCart, bookId),
                        [op |-> "removeItem", id |-> bookId])

\* "Clear" button, rendered when the cart is not empty
BpsClearCart ==
    /\ variant = "BookPreorderSite"
    /\ Len(bpsCart) > 0
    /\ BpsSetCart(<<>>)

\* "Print / Save PDF": window.print(), no state is written
BpsPrintSlip ==
    /\ variant = "BookPreorderSite"
    /\ Len(bpsCart) > 0
    /\ UNCHANGED bpsVars
    /\ BpsOthers

\* "Add to Catalog": canAdd needs a truthy price
BpsAddCustomBook(id, price, pct) ==
    /\ variant = "BookPreorderSite"
    /\ OrZero(price) # 0
    /\ Len(bpsCatalog) < Len(SAMPLE_BOOKS) + MaxCustom
    /\ bpsCatalog' = <<[id |-> id, title |-> "custom", author |-> "custom",
                        price |-> price, discountPct |-> pct]>> \o bpsCatalog
    /\ UNCHANGED <<bpsCart, bpsTotal>>
    /\ BpsOthers

BpsInit ==
    /\ bpsCatalog = SAMPLE_BOOKS
    /\ bpsCart = <<>>
    /\ bpsTotal = 0

BpsNext ==
    \/ \E b \in Range(bpsCatalog) : BpsAddToCart(b)
    \/ \E x \in Range(bpsCart) : BpsQtyMinus(x)
    \/ \E x \in Range(bpsCart) : BpsQtyPlus(x)
    \/ \E x \in Range(bpsCart), t \in QtyTexts : BpsQtyInput(x, t)
    \/ \E x \in Range(bpsCart) : BpsRemoveItem(x)
    \/ BpsClearCart
    \/ BpsPrintSlip
    \/ \E id \in CustomIds, p \in CustomPrices, d \in CustomPcts : BpsAddCustomBook(id, p, d)

(***************************************************************************)
(* script.js: data and pure functions.                                     *)
(* The page's markup is not among the sources: the model assumes nothing   *)
(* about which element contains which, so the form's events can fire in    *)
(* any state; the handlers' own checks decide what they do.                *)
(***************************************************************************)
\* the book list the endpoint answers with (ids unique within the list)
JsCatalog ==
    << [id |-> "b1", title |-> "T1", author |-> "A1",
        price |-> Num(100), discounted |-> Undef],
       [id |-> "b2", title |-> "T2", author |-> "A2",
        price |-> NumStr(50), discounted |-> Num(40)],
       [id |-> "b3", title |-> "T3", author |-> "A3",
        price |-> Text, discounted |-> Undef] >>

\* cart.some(c => c.book === book): books are compared by identity, and a
\* book object is identified by its index in `books`, which is assigned once
JsInCart(c, index) == \E i \in DOMAIN c : c[i].book = index

\* the new cart of toggleBook(index)
JsToggle(c, index) ==
    IF JsInCart(c, index)
    THEN SelectSeqBy(c, {x \in Range(c) : x.book # index})
    ELSE Append(c, [book |-> index, quantity |-> 1])

\* the new cart of updateQuantity(index, qty): cart[index].quantity = Number(qty)
JsSetQuantity(c, index, qty) == [c EXCEPT ![index].quantity = NumberOfText(qty)]

\* Number(item.book.discounted || item.book.price) * item.quantity
JsRowPrice(books, item) ==
    JsMul(ToNumber(JsOr(books[item.book].discounted, books[item.book].price)),
          item.quantity)

RECURSIVE JsRenderTotal(_, _, _)
\* the `total` renderOrder accumulates over the rows, starting from t
JsRenderTotal(books, c, t) ==
    IF c = <<>> THEN t
    ELSE JsRenderTotal(books, Tail(c), JsAdd(t, JsRowPrice(books, Head(c))))

RECURSIVE JsReduceTotal(_, _, _)
\* cart.reduce((sum, i) => sum + Number(i.book.discounted || i.book.price)
\*                                  * i.quantity, sum0)
JsReduceTotal(books, c, sum) ==
    IF c = <<>> THEN sum
    ELSE JsReduceTotal(books, Tail(c),
            JsAdd(sum, JsMul(ToNumber(JsOr(books[Head(c).book].discounted,
                                           books[Head(c).book].price)),
                             Head(c).quantity)))

\* JSON of `items: cart`: every item with its whole book object
JsItemsJson(books, c) ==
    [i \in DOMAIN c |->
        [book |-> books[c[i].book], quantity |-> JsonOfNumber(c[i].quantity)]]

\* JSON.stringify(order), made when fetch is called
JsOrderBody ==
    [form |-> jsForm,
     items |-> JsItemsJson(jsBooks, jsCart),
     total |-> JsonOfNumber(JsReduceTotal(jsBooks, jsCart, 0))]

(***************************************************************************)
(* script.js: handlers.                                                    *)
(***************************************************************************)
JsOthers == UNCHANGED <<variant, watch, appVars, bpsVars, fnVars, flVars, updVars>> /\ Observer(NoCall)

\* the fetch at load fulfils with a book list
JsFetchOk(data) ==
    /\ variant = "script"
    /\ jsFetch = "pending"
    /\ jsFetch' = "done"
    /\ jsBooks' = data
    /\ jsBooksObject' = FALSE
    /\ alert' = "none"
    /\ UNCHANGED <<jsCart, jsCheckoutShown, jsFormShown, jsForm, jsReqs>>
    /\ JsOthers

\* the fetch at load rejects or its body is no JSON: the failure notice
\* replaces the book list
JsFetchFail ==
    /\ variant = "script"
    /\ jsFetch = "pending"
    /\ jsFetch' = "failed"
    /\ alert' = "none"
    /\ UNCHANGED <<jsBooks, jsBooksObject, jsCart, jsCheckoutShown, jsFormShown, jsForm, jsReqs>>
    /\ JsOthers

\* The body parses to a JSON object that is no list (an error object),
\* whatever the status, which the chain never looks at: books = data, then
\* renderBooks throws at books.forEach and .catch writes the failure notice.
JsFetchObject(status) ==
    /\ variant = "script"
    /\ jsFetch = "pending"
    /\ status \in {"ok", "notok"}
    /\ jsFetch' = "failed"
    /\ jsBooks' = <<>>
    /\ jsBooksObject' = TRUE
    /\ alert' = "none"
    /\ UNCHANGED <<jsCart, jsCheckoutShown, jsFormShown, jsForm, jsReqs>>
    /\ JsOthers

\* renderOrder(): what it writes to the two style.display properties
JsRenderOrder(c) ==
    IF Len(c) = 0
    THEN jsCheckoutShown' = FALSE /\ jsFormShown' = FALSE
    ELSE jsCheckoutShown' = TRUE /\ UNCHANGED jsFormShown

\* the cart handlers' frame if a request in flight shared the cart array
JsCartFrameShared ==
    /\ alert' = "none"
    /\ UNCHANGED <<jsFetch, jsBooks, jsBooksObject, jsForm>>
    /\ IF watch = "wire"
       THEN jsReqs' = [i \in DOMAIN jsReqs |->
                          [jsReqs[i] EXCEPT !.items = JsItemsJson(jsBooks, jsCart')]]
       ELSE UNCHANGED jsReqs
    /\ JsOthers

JsCartFrame ==
    /\ alert' = "none"
    /\ UNCHANGED <<jsFetch, jsBooks, jsBooksObject, jsForm, jsReqs>>
    /\ JsOthers

\* onchange of a book's checkbox
toggleBook(index) ==
    /\ variant = "script"
    /\ index \in DOMAIN jsBooks
    /\ JsInCart(jsCart, index) \/ Len(jsCart) < MaxCartLen
    /\ jsCart' = JsToggle(jsCart, index)
    /\ JsRenderOrder(jsCart')
    /\ JsCartFrame

\* onchange of a row's quantity input (type="number")
updateQuantity(index, text) ==
    /\ variant = "script"
    /\ index \in DOMAIN jsCart
    /\ ~JsGt(NumberOfText(text), MaxQty)
    /\ jsCart' = JsSetQuantity(jsCart, index, NumberInputValue(text))
    /\ JsRenderOrder(jsCart')
    /\ JsCartFrame

\* onclick of a row's remove mark
removeItem(index) ==
    /\ variant = "script"
    /\ index \in DOMAIN jsCart
    /\ jsCart' = RemoveAt(jsCart, index)
    /\ JsRenderOrder(jsCart')
    /\ JsCartFrame

\* click on the checkout button
JsCheckoutClick ==
    /\ variant = "script"
    /\ jsCheckoutShown
    /\ jsFormShown' = TRUE
    /\ jsCheckoutShown' = FALSE
    /\ alert' = "none"
    /\ UNCHANGED <<jsFetch, jsBooks, jsBooksObject, jsCart, jsForm, jsReqs>>
    /\ JsOthers

\* the user types into the order form
JsEditForm(v) ==
    /\ variant = "script"
    /\ jsForm # v
    /\ jsForm' = v
    /\ alert' = "none"
    /\ UNCHANGED <<jsFetch, jsBooks, jsBooksObject, jsCart, jsCheckoutShown, jsFormShown, jsReqs>>
    /\ JsOthers

\* submit of the order form, up to the fetch
JsSubmit ==
    /\ variant = "script"
    /\ IF Len(jsCart) = 0
       THEN /\ alert' = "Please select at least one book before confirming order."
            /\ UNCHANGED jsReqs
       ELSE /\ Len(jsReqs) < MaxInFlight
            /\ jsReqs' = Append(jsReqs, Wire(JsOrderBody, "order"))
            /\ alert' = "none"
    /\ UNCHANGED <<jsFetch, jsBooks, jsBooksObject, jsCart, jsCheckoutShown, jsFormShown, jsForm>>
    /\ JsOthers

\* res.json() rejects, or the fetch did: the promise chain runs .catch
JsThrows(o) == o \in {"reject", "notok", "badjson"}

\* "Order confirmed! Your Order ID: " + response.orderId
JsConfirmText(o) ==
    IF o = "ack" THEN "Order confirmed! Your Order ID: ORD-1"
    ELSE "Order confirmed! Your Order ID: undefined"

\* the promise chain of a request settles with outcome o
JsSubmitResolve(i, o) ==
    /\ variant = "script"
    /\ i \in DOMAIN jsReqs
    /\ jsReqs' = RemoveAt(jsReqs, i)
    /\ IF JsThrows(o)
       THEN /\ alert' = "Failed to submit order. Please try again."
            /\ UNCHANGED <<jsCart, jsForm, jsCheckoutShown, jsFormShown>>
       ELSE /\ alert' = JsConfirmText(o)
            /\ jsForm' = "blank"
            /\ jsCart' = <<>>
            /\ jsCheckoutShown' = FALSE
            /\ jsFormShown' = FALSE
    /\ UNCHANGED <<jsFetch, jsBooks, jsBooksObject>>
    /\ JsOthers

JsInit ==
    /\ jsFetch = "pending"
    /\ jsBooks = <<>>
    /\ jsBooksObject = FALSE
    /\ jsCart = <<>>
    /\ jsCheckoutShown = FALSE
    /\ jsFormShown = FALSE
    /\ jsForm = "blank"
    /\ jsReqs = <<>>

JsNext(outcomes) ==
    \/ JsFetchOk(JsCatalog)
    \/ JsFetchFail
    \/ \E st \in {"ok", "notok"} : JsFetchObject(st)
    \/ \E i \in DOMAIN jsBooks : toggleBook(i)
    \/ \E i \in DOMAIN jsCart, t \in QtyTexts : updateQuantity(i, t)
    \/ \E i \in DOMAIN jsCart : removeItem(i)
    \/ JsCheckoutClick
    \/ \E v \in {"blank", "filled"} : JsEditForm(v)
    \/ JsSubmit
    \/ \E i \in 1..MaxInFlight, o \in outcomes : JsSubmitResolve(i, o)

(***************************************************************************)
(* App's `filtered` (index.jsx 80-94) applied to catalogs and filter       *)
(* inputs drawn from bounded sets.  Strings whose characters matter are    *)
(* sequences of one-character strings.  The App sessions above leave the   *)
(* filter inputs out: they only narrow which loaded books have a card.     *)
(***************************************************************************)
\* String.prototype.toLowerCase over the alphabet of the model
ToLowerChar(ch) == CASE ch = "A" -> "a" [] ch = "B" -> "b" [] OTHER -> ch

ToLowerCase(s) == [i \in DOMAIN s |-> ToLowerChar(s[i])]

RECURSIVE TrimStart(_)
TrimStart(s) == IF Len(s) > 0 /\ s[1] = " " THEN TrimStart(Tail(s)) ELSE s

RECURSIVE TrimEnd(_)
TrimEnd(s) ==
    IF Len(s) > 0 /\ s[Len(s)] = " " THEN TrimEnd(SubSeq(s, 1, Len(s) - 1)) ELSE s

\* String.prototype.trim
Trim(s) == TrimEnd(TrimStart(s))

\* String.prototype.includes
Includes(hay, needle) ==
    \E i \in 0..(Len(hay) - Len(needle)) : SubSeq(hay, i + 1, i + Len(needle)) = needle

\* a < b on numbers
JsLt(a, b) == JsGt(b, a)

\* the books a catalog can deliver to the filter
FlBookPool ==
    { [id |-> "b1", title |-> <<"A", "b">>, author |-> <<"b">>, genre |-> <<"a">>,
       location |-> <<"a">>, price |-> Num(1)],
      [id |-> "b2", title |-> <<"b">>, author |-> <<"A">>, genre |-> <<"b">>,
       location |-> <<>>, price |-> NumStr(2)],
      [id |-> "b3", title |-> <<"a">>, author |-> <<>>, genre |-> <<>>,
       location |-> <<"a">>, price |-> Undef],
      [id |-> "b4", title |-> <<"b", " ", "a">>, author |-> <<"b">>, genre |-> <<"a">>,
       location |-> <<"b">>, price |-> Text] }

\* catalogs: book lists without a repeated book (ids are unique within a load)
FlCatalogs ==
    UNION { {c \in [1..n -> FlBookPool] : \A i, j \in 1..n : c[i] = c[j] => i = j}
            : n \in 0..MaxCatalog }

\* what the five filter inputs can hold; Min and Max are number inputs
FlQueries   == { <<>>, <<"a">>, <<"A", "B">>, <<" ", "a">>, <<"b", " ">>, <<" ">> }
FlGenres    == { <<>>, <<"a">>, <<"A">> }
FlLocations == { <<>>, <<"a">> }
FlMinTexts  == { "", "1", "2" }
FlMaxTexts  == { "", "0", "1" }

FlSpecs == [q : FlQueries, genre : FlGenres, location : FlLocations,
            minPrice : FlMinTexts, maxPrice : FlMaxTexts]

\* the callback of books.filter, without the bounds being inclusive
FilterKeepsExclusive(b, ql, f) ==
    /\ Len(ql) > 0 =>
          Includes(ToLowerCase(b.title \o <<" ">> \o b.author \o <<" ">> \o b.genre), ql)
    /\ Len(f.genre) > 0 => b.genre = f.genre
    /\ Len(f.location) > 0 => b.location = f.location
    /\ LET price == OrZero(ToNumber(b.price)) IN
          /\ f.minPrice # "" => JsGt(price, NumberOfText(f.minPrice))
          /\ f.maxPrice # "" => JsLt(price, NumberOfText(f.maxPrice))

\* the callback of books.filter: does book b pass
FilterKeeps(b, ql, f) ==
    /\ Len(ql) > 0 =>
          Includes(ToLowerCase(b.title \o <<" ">> \o b.author \o <<" ">> \o b.genre), ql)
    /\ Len(f.genre) > 0 => b.genre = f.genre
    /\ Len(f.location) > 0 => b.location = f.location
    /\ LET price == OrZero(ToNumber(b.price)) IN
          /\ f.minPrice # "" => ~JsLt(price, NumberOfText(f.minPrice))
          /\ f.maxPrice # "" => ~JsGt(price, NumberOfText(f.maxPrice))

RECURSIVE Reverse(_)
Reverse(s) == IF s = <<>> THEN <<>> ELSE Append(Reverse(Tail(s)), Head(s))

\* `filtered` with its matches last-first
filteredReversed(books, f) ==
    LET ql == ToLowerCase(Trim(f.q))
    IN  Reverse(SelectSeqBy(books, {b \in Range(books) : FilterKeeps(b, ql, f)}))

\* the value useMemo computes for `filtered`
filtered(books, f) ==
    LET ql == ToLowerCase(Trim(f.q))
    IN  SelectSeqBy(books, {b \in Range(books) : FilterKeeps(b, ql, f)})

\* the filter harness at rest (sessions of the front ends)
FlIdle ==
    /\ flBooks = <<>>
    /\ flSpec = [q |-> <<>>, genre |-> <<>>, location |-> <<>>,
                 minPrice |-> "", maxPrice |-> ""]
    /\ flOut = <<>>

\* a render computes `filtered`; books.filter builds a new array
FlApply ==
    /\ variant = "filter"
    /\ flOut = <<>>
    /\ flOut' = <<filtered(flBooks, flSpec)>>
    /\ UNCHANGED <<variant, alert, flBooks, flSpec, appVars, bpsVars, jsVars, fnVars,
                   updVars, watch, obsVars>>

FlNext == FlApply

(***************************************************************************)
(* The addToCart updaters applied to cart values whose items are objects:  *)
(* a cart value is an array of references, [...c] copies the references,   *)
(* and two arrays that hold the same reference show the same item.         *)
(***************************************************************************)
\* the items an array of addresses shows
UpdView(objects, arr) == [i \in DOMAIN arr |-> objects[arr[i]]]

\* App's updater run on the array c: copy[i] is the object c[i] refers to,
\* and copy[i].qty += 1 writes into it
AppAddUpdaterOnObjects(objects, c, book) ==
    LET i == FindIndexById(UpdView(objects, c), book.id) IN
    IF i > 0
    THEN [objects |-> [objects EXCEPT ![c[i]].qty = JsAdd(@, 1)],
          out     |-> c]
    ELSE [objects |-> Append(objects,
                         [id |-> book.id, title |-> book.title,
                          author |-> book.author, price |-> book.price,
                          qty |-> 1]),
          out     |-> Append(c, Len(objects) + 1)]

\* BookPreorderSite's updater run on the array prev: copy[i] is replaced
\* by a new object {...copy[i], qty: copy[i].qty + 1}
BpsAddUpdaterOnObjects(objects, prev, book) ==
    LET i == FindIndexByBookId(UpdView(objects, prev), book.id) IN
    IF i > 0
    THEN [objects |-> Append(objects,
                         [objects[prev[i]] EXCEPT !.qty = JsAdd(@, 1)]),
          out     |-> [prev EXCEPT ![i] = Len(objects) + 1]]
    ELSE [objects |-> Append(objects, [book |-> book, qty |-> 1]),
          out     |-> Append(prev, Len(objects) + 1)]

\* the cart values an updater can be given: at most MaxCartLen items, no
\* two of the same book
UpdAppItems ==
    {[id |-> b.id, title |-> b.title, author |-> b.author, price |-> b.price,
      qty |-> n] : b \in Range(AppCatalogA), n \in 1..MaxQty}

UpdAppCarts ==
    {c \in UNION {[1..n -> UpdAppItems] : n \in 0..MaxCartLen} :
        \A i, j \in DOMAIN c : c[i].id = c[j].id => i = j}

UpdBpsItems == {[book |-> b, qty |-> n] : b \in Range(SAMPLE_BOOKS), n \in 1..MaxQty}

UpdBpsCarts ==
    {c \in UNION {[1..n -> UpdBpsItems] : n \in 0..MaxCartLen} :
        \A i, j \in DOMAIN c : c[i].book.id = c[j].book.id => i = j}

UpdIdle ==
    /\ updKind = "none"
    /\ updBook = <<>>
    /\ updObjects = <<>>
    /\ updPrev = <<>>
    /\ updOut = <<>>
    /\ updGiven = <<>>

\* React calls the updater with the cart value it holds; it may call it
\* again with the same value (as it does in StrictMode)
UpdApply ==
    /\ variant = "updater"
    /\ Len(updOut) < MaxApply
    /\ LET r == IF updKind = "App"
                THEN AppAddUpdaterOnObjects(updObjects, updPrev, updBook)
                ELSE BpsAddUpdaterOnObjects(updObjects, updPrev, updBook)
       IN  /\ updObjects' = r.objects
           /\ updOut' = Append(updOut, r.out)
    /\ UNCHANGED <<variant, alert, updKind, updBook, updPrev, updGiven, appVars, bpsVars,
                   jsVars, fnVars, flVars, watch, obsVars>>

UpdNext == UpdApply

(***************************************************************************)
(* discounted() applied to books drawn from bounded sets.                  *)
(***************************************************************************)
FnBooks == [price : 0..MaxPrice, discountPct : 0..100]

FnApply ==
    /\ variant = "fn"
    /\ fnOut = <<>>
    /\ fnOut' = <<discounted(fnBook)>>
    /\ UNCHANGED <<variant, alert, fnBook, appVars, bpsVars, jsVars, flVars, updVars, watch,
                   obsVars>>

FnNext == FnApply

(***************************************************************************)
(* Specifications.                                                         *)
(***************************************************************************)
\* every front end as constructed
Constructed ==
    /\ alert = "none"
    /\ AppInit /\ BpsInit /\ JsInit
    /\ fnBook = [price |-> 0, discountPct |-> 0]
    /\ fnOut = <<>>
    /\ FlIdle
    /\ UpdIdle
    /\ Unobserved

\* Cart sessions: every cart handler of the three front ends, catalog
\* (re)loads, custom books, and order submission with the required fields.
InitCart == variant \in {"App", "BookPreorderSite", "script"} /\ Constructed

NextCart ==
    \/ AppNext({"s1"}, QtyTexts, {"fullName", "email", "phone"}, {"ack", "reject"},
               AppFetchErrors)
    \/ BpsNext
    \/ JsNext({"ack", "reject"})

SpecCart == InitCart /\ [][NextCart]_vars

\* Submission sessions: the whole checkout form and every way a request can
\* end; the only quantity typed is 0.
InitSubmit == variant \in {"App", "script"} /\ Constructed

NextSubmit ==
    \/ AppNext({"s1"}, {"0"}, AppFieldNames, Outcomes, {"Failed to fetch books"})
    \/ JsNext(Outcomes)

SpecSubmit == InitSubmit /\ [][NextSubmit]_vars

\* discounted() on every book of FnBooks
InitFn ==
    /\ variant = "fn"
    /\ alert = "none"
    /\ AppInit /\ BpsInit /\ JsInit
    /\ fnBook \in FnBooks
    /\ fnOut = <<>>
    /\ FlIdle
    /\ UpdIdle
    /\ Unobserved

SpecFn == InitFn /\ [][FnNext]_vars

\* Ledger sessions: the cart handlers of the three front ends, and the
\* cart functions of App and BookPreorderSite called with any book id; the
\* observers of removals and calls are on.
CallIds  == {"b2", "2"}
CallQtys == {0, 2}

InitLedger ==
    /\ variant \in {"App", "BookPreorderSite", "script"}
    /\ alert = "none"
    /\ AppInit /\ BpsInit /\ JsInit
    /\ fnBook = [price |-> 0, discountPct |-> 0]
    /\ fnOut = <<>>
    /\ FlIdle
    /\ UpdIdle
    /\ watch = "cart" /\ removed = <<>> /\ lastCall = NoCall

NextLedger ==
    \/ \E s \in {"s1"} : AppSetSheetId(s)
    \/ \E i \in 1..MaxFetches, data \in AppCatalogs : AppFetchOk(i, data)
    \/ \E b \in Range(appBooks) : AppAddToCart(b)
    \/ \E it \in Range(appCart) : AppQtyPlus(it)
    \/ \E it \in Range(appCart) : AppRemoveFromCart(it)
    \/ \E id \in CallIds, q \in CallQtys : AppUpdateQtyCall(id, q)
    \/ \E id \in CallIds : AppRemoveFromCartCall(id)
    \/ \E b \in Range(bpsCatalog) : BpsAddToCart(b)
    \/ \E x \in Range(bpsCart) : BpsQtyPlus(x)
    \/ \E x \in Range(bpsCart) : BpsRemoveItem(x)
    \/ BpsClearCart
    \/ \E id \in CallIds, q \in CallQtys : BpsSetQtyCall(id, q)
    \/ \E id \in CallIds : BpsRemoveItemCall(id)
    \/ JsFetchOk(JsCatalog)
    \/ \E i \in DOMAIN jsBooks : toggleBook(i)
    \/ \E i \in DOMAIN jsCart : updateQuantity(i, "2")
    \/ \E i \in DOMAIN jsCart : removeItem(i)

SpecLedger == InitLedger /\ [][NextLedger]_vars

\* Order sessions: carts of up to two books are built, submitted and
\* changed while requests are in flight; the requests are kept with their
\* bodies.
JsCatalogShort == SubSeq(JsCatalog, 1, 2)

InitOrder ==
    /\ variant \in {"App", "script"}
    /\ alert = "none"
    /\ AppInit /\ BpsInit /\ JsInit
    /\ fnBook = [price |-> 0, discountPct |-> 0]
    /\ fnOut = <<>>
    /\ FlIdle
    /\ UpdIdle
    /\ watch = "wire" /\ removed = <<>> /\ lastCall = NoCall

NextOrder ==
    \/ \E s \in {"s1"} : AppSetSheetId(s)
    \/ \E i \in 1..MaxFetches : AppFetchOk(i, AppCatalogA)
    \/ \E b \in Range(appBooks) : AppAddToCart(b)
    \/ \E it \in Range(appCart) : AppQtyPlus(it)
    \/ \E it \in Range(appCart) : AppRemoveFromCart(it)
    \/ \E f \in {"fullName", "email", "phone"} : AppSetField(f, "x")
    \/ AppSubmitOrder
    \/ \E i \in 1..MaxInFlight, o \in {"ack", "reject"} : AppSubmitResolve(i, o)
    \/ JsFetchOk(JsCatalogShort)
    \/ \E i \in DOMAIN jsBooks : toggleBook(i)
    \/ \E i \in DOMAIN jsCart : updateQuantity(i, "2")
    \/ \E i \in DOMAIN jsCart : removeItem(i)
    \/ JsSubmit
    \/ \E i \in 1..MaxInFlight, o \in {"ack", "reject"} : JsSubmitResolve(i, o)

SpecOrder == InitOrder /\ [][NextOrder]_vars

\* App while the sheet id is retyped: the Apps Script endpoint answers each
\* catalog request by the sheet it names, in any order
SheetIds == {"s1", "s2", "s0"}

InitReload == Constructed /\ variant = "App" /\ watch = "off"

NextReload ==
    \/ \E s \in SheetIds \cup {""} : AppSetSheetIdUpTo(s, MaxOverlap)
    \/ \E i \in 1..MaxOverlap : AppSheetAnswers(i)
    \/ \E b \in Range(appBooks) : AppAddToCart(b)

SpecReload == InitReload /\ [][NextReload]_vars

\* the addToCart updaters of App and BookPreorderSite, each applied to a
\* cart value and a book drawn from bounded sets
InitUpdater ==
    /\ variant = "updater"
    /\ alert = "none"
    /\ AppInit /\ BpsInit /\ JsInit
    /\ fnBook = [price |-> 0, discountPct |-> 0]
    /\ fnOut = <<>>
    /\ FlIdle
    /\ Unobserved
    /\ updKind \in {"App", "BookPreorderSite"}
    /\ updGiven \in (IF updKind = "App" THEN UpdAppCarts ELSE UpdBpsCarts)
    /\ updBook \in (IF updKind = "App" THEN Range(AppCatalogA)
                     ELSE Range(SAMPLE_BOOKS))
    /\ updObjects = updGiven
    /\ updPrev = [i \in DOMAIN updGiven |-> i]
    /\ updOut = <<>>

SpecUpdater == InitUpdater /\ [][UpdNext]_vars

\* Submit attempts of App: a catalog is loaded (or the load ends with an
\* error object), a cart is built, the required fields are filled and the
\* order is submitted.  The browser settles every request it has sent, with
\* a response or with a network error, and the rest of submitOrder then
\* runs: a request in flight is eventually answered.
InitAttempt == Constructed /\ variant = "App" /\ watch = "off"

AttemptSettles == \E i \in 1..MaxInFlight, o \in Outcomes : AppSubmitResolve(i, o)

NextAttempt ==
    \/ \E s \in {"s1", ""} : AppSetSheetId(s)
    \/ \E i \in 1..MaxFetches : AppFetchOk(i, AppCatalogA)
    \/ \E i \in 1..MaxFetches : AppFetchObject(i)
    \/ \E b \in Range(appBooks) : AppAddToCart(b)
    \/ \E f \in {"fullName", "email", "phone"} : AppSetField(f, "x")
    \/ AppSubmitOrder
    \/ AttemptSettles

SpecAttempt == InitAttempt /\ [][NextAttempt]_vars /\ WF_vars(AttemptSettles)

\* `filtered` on every catalog of FlCatalogs and every filter of FlSpecs
InitFilter ==
    /\ variant = "filter"
    /\ alert = "none"
    /\ AppInit /\ BpsInit /\ JsInit
    /\ fnBook = [price |-> 0, discountPct |-> 0]
    /\ fnOut = <<>>
    /\ flBooks \in FlCatalogs
    /\ flSpec \in FlSpecs
    /\ flOut = <<>>
    /\ UpdIdle
    /\ Unobserved

SpecFilter == InitFilter /\ [][FlNext]_vars

RECURSIVE SumSeq(_)
\* the sum of a sequence of amounts (NaN if one of them is NaN)
SumSeq(q) == IF q = <<>> THEN 0 ELSE JsAdd(Head(q), SumSeq(Tail(q)))

(***************************************************************************)
(* C1.  add(book): an item for book.id already in the cart has its         *)
(* quantity raised by exactly 1, nothing inserted or deleted; otherwise    *)
(* exactly one new item with quantity 1 is inserted.                       *)
(***************************************************************************)
\* the contract of add as claimed: quantity + 1 as a number
AddContract(before, after, id) ==
    IF HasId(before, id)
    THEN /\ Len(after) = Len(before)
         /\ \A i \in DOMAIN before :
               /\ after[i].id = before[i].id
               /\ after[i].qty = IF before[i].id = id THEN before[i].qty + 1
                                 ELSE before[i].qty
         /\ \A i \in DOMAIN before : before[i].id = id => ~IsNaN(before[i].qty)
    ELSE after = Append(before, [id |-> id, qty |-> 1])

\* the same with JavaScript's +: a quantity that is NaN stays NaN
AddContractJs(before, after, id) ==
    IF HasId(before, id)
    THEN /\ Len(after) = Len(before)
         /\ \A i \in DOMAIN before :
               /\ after[i].id = before[i].id
               /\ after[i].qty = IF before[i].id = id THEN JsAdd(before[i].qty, 1)
                                 ELSE before[i].qty
    ELSE after = Append(before, [id |-> id, qty |-> 1])

\* a toggle: the item for id is deleted if present, inserted with quantity 1 if not
ToggleContract(before, after, id) ==
    IF HasId(before, id)
    THEN after = SelectSeqBy(before, {x \in Range(before) : x.id # id})
    ELSE after = Append(before, [id |-> id, qty |-> 1])

\* C1 as claimed: App.addToCart, BookPreorderSite.addToCart and toggleBook
\* all keep the contract of add.
C1_AddAsClaimed ==
    [][ /\ \A b \in Range(appBooks) :
              AppAddToCart(b) => AddContract(AppItems, AppItems', b.id)
        /\ \A b \in Range(bpsCatalog) :
              BpsAddToCart(b) => AddContract(BpsItems, BpsItems', b.id)
        /\ \A i \in DOMAIN jsBooks :
              toggleBook(i) => AddContract(JsItems, JsItems', jsBooks[i].id) ]_vars

\* C1 (amended): App.addToCart and BookPreorderSite.addToCart raise the
\* quantity of the item that holds book.id by 1 (JavaScript addition: a NaN
\* quantity stays NaN) and insert or delete nothing, or insert one new item
\* with quantity 1 when no item holds book.id; toggleBook inserts one new
\* item with quantity 1 when the book is not in the cart and deletes the
\* book's item when it is.
C1_AddMergesOrInserts ==
    [][ /\ \A b \in Range(appBooks) :
              AppAddToCart(b) => AddContractJs(AppItems, AppItems', b.id)
        /\ \A b \in Range(bpsCatalog) :
              BpsAddToCart(b) => AddContractJs(BpsItems, BpsItems', b.id)
        /\ \A i \in DOMAIN jsBooks :
              toggleBook(i) => ToggleContract(JsItems, JsItems', jsBooks[i].id) ]_vars

\* a book was added twice to an empty App cart: one item, quantity 2
C1_Witness ==
    /\ variant = "App"
    /\ Len(appCart) = 1
    /\ appCart[1].qty = 2

(***************************************************************************)
(* C2.  In every reachable state the cart holds at most one item per       *)
(* distinct book id.                                                       *)
(***************************************************************************)
NoDuplicateIds(items) ==
    \A i, j \in DOMAIN items : items[i].id = items[j].id => i = j

\* C2: at most one cart item per book id, in each front end
C2_OneItemPerBookId ==
    /\ NoDuplicateIds(AppItems)
    /\ NoDuplicateIds(BpsItems)
    /\ NoDuplicateIds(JsItems)

\* a custom book whose id collides with a sample book's is in the catalog,
\* and the one cart item for that id has been added to twice
C2_Witness ==
    /\ variant = "BookPreorderSite"
    /\ Len(bpsCatalog) > Len(SAMPLE_BOOKS)
    /\ bpsCatalog[1].id = "1"
    /\ \E i \in DOMAIN bpsCart : bpsCart[i].book.id = "1" /\ bpsCart[i].qty = 2
    /\ Len(bpsCart) = 2

(***************************************************************************)
(* C3.  setQuantity(bookId, q) on an item in the cart: q < 1 leaves the    *)
(* item in the cart with quantity 1, q >= 1 sets its quantity to q; the    *)
(* item is never removed.                                                  *)
(***************************************************************************)
SetQuantityContract(before, after, id, q) ==
    /\ Len(after) = Len(before)
    /\ \A i \in DOMAIN before :
          /\ after[i].id = before[i].id
          /\ before[i].id # id => after[i].qty = before[i].qty
          /\ (before[i].id = id /\ ~IsNaN(q) /\ q < 1) => after[i].qty = 1
          /\ (before[i].id = id /\ ~IsNaN(q) /\ q >= 1) => after[i].qty = q

\* C3 as claimed: every quantity control of the three front ends clamps at 1
C3_SetQuantityClamps ==
    [][ /\ \A it \in Range(appCart) :
              /\ AppQtyMinus(it) =>
                    SetQuantityContract(AppItems, AppItems', it.id, JsAdd(it.qty, -1))
              /\ AppQtyPlus(it) =>
                    SetQuantityContract(AppItems, AppItems', it.id, JsAdd(it.qty, 1))
              /\ \A t \in QtyTexts : AppQtyInput(it, t) =>
                    SetQuantityContract(AppItems, AppItems', it.id, NumberOfText(t))
        /\ \A x \in Range(bpsCart) :
              /\ BpsQtyMinus(x) =>
                    SetQuantityContract(BpsItems, BpsItems', x.book.id, JsAdd(x.qty, -1))
              /\ BpsQtyPlus(x) =>
                    SetQuantityContract(BpsItems, BpsItems', x.book.id, JsAdd(x.qty, 1))
              /\ \A t \in QtyTexts : BpsQtyInput(x, t) =>
                    SetQuantityContract(BpsItems, BpsItems', x.book.id,
                                        NumberOfText(NumberInputValue(t)))
        /\ \A i \in DOMAIN jsCart : \A t \in QtyTexts :
              updateQuantity(i, t) =>
                    SetQuantityContract(JsItems, JsItems', JsItems[i].id,
                                        NumberOfText(NumberInputValue(t))) ]_vars

(***************************************************************************)
(* C4.  In every reachable state every cart item's quantity is an integer  *)
(* >= 1.                                                                   *)
(***************************************************************************)
PositiveQuantities(items) ==
    \A i \in DOMAIN items : ~IsNaN(items[i].qty) /\ items[i].qty >= 1

\* C4 as claimed: quantities are integers >= 1 in each front end
C4_QuantitiesPositive ==
    /\ PositiveQuantities(AppItems)
    /\ PositiveQuantities(BpsItems)
    /\ PositiveQuantities(JsItems)

(***************************************************************************)
(* C5.  The displayed cart total equals the sum of the per-line amounts    *)
(* displayed for the same cart.                                            *)
(***************************************************************************)
\* C5 as claimed: total = sum of the lines, in each front end
C5_TotalIsSumOfLines ==
    /\ AppSubtotal(appCart) =
          SumSeq([i \in DOMAIN appCart |-> AppLineAmount(appCart[i])])
    /\ bpsTotal = SumSeq([i \in DOMAIN bpsCart |-> BpsLineAmount(bpsCart[i])])
    /\ JsRenderTotal(jsBooks, jsCart, 0) =
          SumSeq([i \in DOMAIN jsCart |-> JsRowPrice(jsBooks, jsCart[i])])

(***************************************************************************)
(* C6.  computeTotal() (BookPreorderSite.total) always equals the sum over *)
(* the items currently in the cart of                                      *)
(* round(price * (100 - discountPercent) / 100) * quantity, never a stale  *)
(* value; price 100 at 20% added twice gives 160.                          *)
(***************************************************************************)
\* round(n / d), d > 0: the integer k with k - 1/2 <= n/d < k + 1/2
RoundHalfUp(n, d) ==
    CHOOSE k \in ((n \div d) - 1)..((n \div d) + 1) :
        d * (2 * k - 1) <= 2 * n /\ 2 * n < d * (2 * k + 1)

Clamp(x, lo, hi) == IF x < lo THEN lo ELSE IF x > hi THEN hi ELSE x

\* the sum of the claim, the discount percentage being read through `pctOf`
SumOfDiscountedLines(c, pctOf(_)) ==
    SumSeq([i \in DOMAIN c |->
               RoundHalfUp(c[i].book.price * (100 - pctOf(c[i].book.discountPct)), 100)
                   * c[i].qty])

PctAsIs(p) == p
PctClamped(p) == Clamp(p, 0, 100)

\* C6 as claimed: the total is the sum with each book's discountPercent as it is
C6_TotalAsClaimed == bpsTotal = SumOfDiscountedLines(bpsCart, PctAsIs)

\* C6 (amended): the total always equals the sum over the items currently in
\* the cart of round(price * (100 - p) / 100) * quantity, where p is the
\* book's discountPercent clamped to 0..100, and is never stale.
C6_TotalIsDiscountedSum == bpsTotal = SumOfDiscountedLines(bpsCart, PctClamped)

\* the scenario of the claim: price 100 at 20%, added twice, total 160
C6_Witness ==
    /\ variant = "BookPreorderSite"
    /\ Len(bpsCart) = 1
    /\ bpsCart[1].book.price = 100
    /\ bpsCart[1].book.discountPct = 20
    /\ bpsCart[1].qty = 2
    /\ bpsTotal = 160

(***************************************************************************)
(* C7.  For every book B with non-negative integer price and               *)
(* discountPercent in 0..100, discounted(B) <= B.price, with equality if   *)
(* and only if discountPercent = 0.                                        *)
(***************************************************************************)
FnApplied == fnOut # <<>>

\* C7 as claimed: equality exactly when the discount is 0
C7_AsClaimed ==
    FnApplied =>
        /\ fnOut[1] <= fnBook.price
        /\ (fnOut[1] = fnBook.price) <=> (fnBook.discountPct = 0)

\* C7 (amended): discounted(B) <= B.price, with equality if and only if
\* price * discountPercent <= 50: always when discountPercent = 0, and also
\* when the discount is less than or equal to half a currency unit, which
\* rounding absorbs.
C7_DiscountNeverRaises ==
    FnApplied =>
        /\ fnOut[1] <= fnBook.price
        /\ (fnOut[1] = fnBook.price) <=> (fnBook.price * fnBook.discountPct <= 50)
        /\ fnBook.discountPct = 0 => fnOut[1] = fnBook.price

\* discounted() was applied to a discounted book and lowered its price
C7_Witness ==
    /\ FnApplied
    /\ fnBook.discountPct > 0
    /\ fnOut[1] < fnBook.price

(***************************************************************************)
(* C8.  Whenever submit is invoked while the cart is empty, no remote call *)
(* is issued, a validation message is shown, and cart, form fields and the *)
(* submitting flag are left unchanged.                                     *)
(***************************************************************************)
\* C8: submitOrder and the order-form handler on an empty cart
C8_EmptyCartSubmitBlocked ==
    [][ /\ (AppSubmitOrder /\ Len(appCart) = 0) =>
              /\ appReqs' = appReqs
              /\ alert' = "Your cart is empty."
              /\ appCart' = appCart
              /\ appFields' = appFields
              /\ appSubmitting' = appSubmitting
        /\ (JsSubmit /\ Len(jsCart) = 0) =>
              /\ jsReqs' = jsReqs
              /\ alert' = "Please select at least one book before confirming order."
              /\ jsCart' = jsCart
              /\ jsForm' = jsForm ]_vars

\* App has just refused a submit of the filled form with an empty cart
C8_Witness ==
    /\ variant = "App"
    /\ alert = "Your cart is empty."
    /\ AppRequiredFilled(appFields)
    /\ Len(appCart) = 0
    /\ appReqs = <<>>

(***************************************************************************)
(* C9.  Whenever the order submission fails (transport error, non-OK       *)
(* status, or an error reported by the collaborator), cart and form fields *)
(* are unchanged after the attempt resolves and a failure notice is shown; *)
(* the cart is cleared only when the collaborator accepted the order.      *)
(***************************************************************************)
FailureNotices ==
    {AppFailureText(o) : o \in {"reject", "notok", "notok_json", "badjson"}}
        \cup {"Failed to submit order. Please try again."}

\* C9 as claimed: every outcome that is not an acceptance keeps cart and form
C9_FailureKeepsCartAndForm ==
    [][ \A o \in Outcomes : ~Accepted(o) =>
          /\ \A i \in DOMAIN appReqs : AppSubmitResolve(i, o) =>
                /\ appCart' = appCart
                /\ appFields' = appFields
                /\ alert' \in FailureNotices
          /\ \A i \in DOMAIN jsReqs : JsSubmitResolve(i, o) =>
                /\ jsCart' = jsCart
                /\ jsForm' = jsForm
                /\ alert' \in FailureNotices ]_vars

(***************************************************************************)
(* C10.  At most one order submission request is in flight at any time.    *)
(***************************************************************************)
\* C10 as claimed: never two order requests in flight, in App and in script.js
C10_OneRequestInFlight ==
    /\ Len(appReqs) <= 1
    /\ Len(jsReqs) <= 1

(***************************************************************************)
(* C11.  When an order submission succeeds, the cart becomes empty, every  *)
(* transient form field (name, email, phone, social handle, pickup         *)
(* selection, notes, payment file) is back at its initial value, and the   *)
(* confirmation returned by the collaborator is shown.                     *)
(***************************************************************************)
\* the texts shown to the user that carry the identifier of outcome "ack"
ShowsIdentifier == {"Order confirmed! Your Order ID: ORD-1"}

\* C11 as claimed: an accepted order empties the cart and resets every field
C11_SuccessResetsCartAndForm ==
    [][ \A o \in Outcomes : Accepted(o) =>
          /\ \A i \in DOMAIN appReqs : AppSubmitResolve(i, o) =>
                /\ appCart' = <<>>
                /\ appFields' = AppFieldInit
                /\ appSuccessMsg' # ""
          /\ \A i \in DOMAIN jsReqs : JsSubmitResolve(i, o) =>
                /\ jsCart' = <<>>
                /\ jsForm' = "blank"
                /\ o = "ack" => alert' \in ShowsIdentifier ]_vars

(***************************************************************************)
(* C12.  When a catalog load fails (the fetch rejects, a non-OK status, an *)
(* unparsable body), the book list loaded before is left exactly as it was *)
(* and a catalog-unavailable state is surfaced; also on a reload after a   *)
(* successful load.                                                        *)
(***************************************************************************)
\* C12 as claimed: no failed load writes `books`, in App and in script.js
C12_FailedLoadKeepsBooks ==
    [][ /\ \A i \in DOMAIN appFetches : \A msg \in AppFetchErrors :
              AppFetchFail(i, msg) =>
                  /\ appBooks' = appBooks
                  /\ appBooksObject' = appBooksObject
                  /\ appError' # "null"
        /\ (JsFetchFail \/ JsFetchObject("notok")) =>
              /\ jsBooks' = jsBooks
              /\ jsBooksObject' = jsBooksObject
              /\ jsFetch' = "failed" ]_vars

(***************************************************************************)
(* C13.  For every catalog C and filter F, filtered(C, F) is a             *)
(* sub-sequence of C that keeps the relative order of the books it keeps,  *)
(* filtering the result again with F gives the same result, and C is not   *)
(* changed by the computation.                                             *)
(***************************************************************************)
FlApplied == flOut # <<>>

\* out is picked from c by a strictly increasing choice of positions
IsSubSequence(out, c) ==
    \E pos \in [DOMAIN out -> DOMAIN c] :
        /\ \A i, j \in DOMAIN out : i < j => pos[i] < pos[j]
        /\ \A i \in DOMAIN out : out[i] = c[pos[i]]

\* C13: `filtered` is an order-preserving sub-sequence, idempotent, and
\* leaves the catalog as it was
C13_FilterIsStableSubsequence ==
    /\ [](FlApplied =>
            /\ IsSubSequence(flOut[1], flBooks)
            /\ filtered(flOut[1], flSpec) = flOut[1])
    /\ [][FlApply => flBooks' = flBooks]_vars

\* a filter kept the first and the third of three books, in that order
C13_Witness ==
    /\ FlApplied
    /\ Len(flBooks) = 3
    /\ flOut[1] = <<flBooks[1], flBooks[3]>>

(***************************************************************************)
(* C14.  A book is in the result of `filtered` if and only if it satisfies *)
(* every present key: the text query is a case-insensitive substring of    *)
(* title, author and genre joined; genre and location are equal to the     *)
(* keys; priceMin <= price <= priceMax, both inclusive.  An absent key or  *)
(* an empty text query imposes no constraint; the empty filter returns the *)
(* whole catalog.                                                          *)
(***************************************************************************)
\* needle occurs in hay at some position
Occurs(needle, hay) ==
    \E k \in 1..(Len(hay) + 1) :
        /\ k + Len(needle) - 1 <= Len(hay)
        /\ \A j \in 1..Len(needle) : hay[k + j - 1] = needle[j]

\* s without regard to case
CaseFolded(s) == [i \in DOMAIN s |-> IF s[i] = "A" THEN "a" ELSE IF s[i] = "B" THEN "b" ELSE s[i]]

\* s without its leading and trailing spaces
Stripped(s) ==
    LET inked == {i \in DOMAIN s : s[i] # " "} IN
    IF inked = {} THEN <<>>
    ELSE LET lo == CHOOSE i \in inked : \A j \in inked : i <= j
             hi == CHOOSE i \in inked : \A j \in inked : i >= j
         IN  [k \in 1..(hi - lo + 1) |-> s[lo + k - 1]]

\* title, author and genre joined by single spaces
Haystack(b) == b.title \o <<" ">> \o b.author \o <<" ">> \o b.genre

\* the price of a book as a number: 0 when missing, NaN when it spells none
PriceOrNaN(b) == IF b.price = Undef THEN 0 ELSE ToNumber(b.price)

\* ... and with a price that spells no number counted as 0
PriceOrZero(b) == IF IsNaN(PriceOrNaN(b)) THEN 0 ELSE PriceOrNaN(b)

\* does b satisfy every present key of f, the query being `query` and the
\* price being `price`
SatisfiesKeys(b, f, query, price) ==
    /\ query # <<>> => Occurs(CaseFolded(query), CaseFolded(Haystack(b)))
    /\ f.genre # <<>> => b.genre = f.genre
    /\ f.location # <<>> => b.location = f.location
    /\ f.minPrice # "" => ~IsNaN(price) /\ NumberOfText(f.minPrice) <= price
    /\ f.maxPrice # "" => ~IsNaN(price) /\ price <= NumberOfText(f.maxPrice)

FlEmptySpec ==
    [q |-> <<>>, genre |-> <<>>, location |-> <<>>, minPrice |-> "", maxPrice |-> ""]

\* C14 as claimed: the text query is matched as typed
C14_AsClaimed ==
    FlApplied =>
        /\ \A b \in Range(flBooks) :
              (b \in Range(flOut[1])) <=> SatisfiesKeys(b, flSpec, flSpec.q, PriceOrNaN(b))
        /\ flSpec = FlEmptySpec => flOut[1] = flBooks

\* C14 (amended): a book is in the result if and only if it satisfies every
\* present key, where the text query is first stripped of its leading and
\* trailing whitespace (a query of whitespace only imposes no constraint)
\* and matched without regard to case against title, author and genre
\* joined by single spaces, genre and location are compared exactly, and
\* priceMin <= price <= priceMax inclusive with a missing or non-numeric
\* price counted as 0; the empty filter returns the whole catalog.
C14_FilterMatchesKeys ==
    FlApplied =>
        /\ \A b \in Range(flBooks) :
              (b \in Range(flOut[1])) <=>
                  SatisfiesKeys(b, flSpec, Stripped(flSpec.q), PriceOrZero(b))
        /\ flSpec = FlEmptySpec => flOut[1] = flBooks

\* a filter with a text query and both price bounds kept a book whose price
\* is equal to both bounds, and dropped another
C14_Witness ==
    /\ FlApplied
    /\ flSpec.q # <<>>
    /\ flSpec.minPrice = "1" /\ flSpec.maxPrice = "1"
    /\ Len(flOut[1]) = 1
    /\ flOut[1][1].price = Num(1)
    /\ Len(flBooks) > 1

(***************************************************************************)
(* C15.  remove(bookId) deletes the book's item, and add() of a book that  *)
(* is not in the cart, whatever was removed before and whatever was done   *)
(* to other books since, puts it there with quantity exactly 1: no         *)
(* quantity survives removal.                                              *)
(***************************************************************************)
\* the item for id is in the cart with quantity 1
FreshlyAdded(items, id) == \E i \in DOMAIN items : items[i].id = id /\ items[i].qty = 1

\* C15: removal deletes, and adding an absent book starts at quantity 1
C15_RemoveThenAddStartsAtOne ==
    [][ /\ \A it \in Range(appCart) :
              AppRemoveFromCart(it) => ~HasId(AppItems', it.id)
        /\ \A b \in Range(appBooks) :
              (AppAddToCart(b) /\ ~HasId(AppItems, b.id)) => FreshlyAdded(AppItems', b.id)
        /\ \A x \in Range(bpsCart) :
              BpsRemoveItem(x) => ~HasId(BpsItems', x.book.id)
        /\ \A b \in Range(bpsCatalog) :
              (BpsAddToCart(b) /\ ~HasId(BpsItems, b.id)) => FreshlyAdded(BpsItems', b.id)
        /\ \A i \in DOMAIN jsCart :
              removeItem(i) => ~HasId(JsItems', JsItems[i].id)
        /\ \A i \in DOMAIN jsBooks :
              (toggleBook(i) /\ ~HasId(JsItems, jsBooks[i].id)) =>
                  FreshlyAdded(JsItems', jsBooks[i].id) ]_vars

\* a book was removed from the App cart while its quantity was 2, and is
\* back in the cart, next to another book, with quantity 1
C15_Witness ==
    /\ variant = "App"
    /\ removed # <<>>
    /\ removed[1].qty = 2
    /\ FreshlyAdded(AppItems, removed[1].id)
    /\ Len(appCart) = 2

(***************************************************************************)
(* C16.  In script.js the visibility of the checkout button and of the     *)
(* customer form is determined by whether the cart is empty alone: nothing *)
(* checkout-related is visible while the cart is empty, the button and the *)
(* form are never both visible, and two states with the same emptiness     *)
(* show the same.                                                          *)
(***************************************************************************)
\* C16 as claimed.  The first book toggled into the empty cart shows the
\* button and leaves the form hidden, so if visibility is a function of
\* emptiness, that is what every non-empty cart shows.
C16_VisibilityFollowsEmptiness ==
    variant = "script" =>
        /\ Len(jsCart) = 0 => ~jsCheckoutShown /\ ~jsFormShown
        /\ ~(jsCheckoutShown /\ jsFormShown)
        /\ Len(jsCart) > 0 => jsCheckoutShown /\ ~jsFormShown

(***************************************************************************)
(* C17.  The order snapshot taken at submit time is a copy decoupled from  *)
(* the cart: an add, setQuantity, remove or clear performed afterwards,    *)
(* also while the request is in flight, does not change the items or       *)
(* quantities of the snapshot that is sent.                                *)
(***************************************************************************)
\* reqs2 is reqs with one more request at its end
Grown(reqs, reqs2) ==
    Len(reqs2) = Len(reqs) + 1 /\ SubSeq(reqs2, 1, Len(reqs)) = reqs

\* what a step may do to the requests in flight: nothing, send one more,
\* or see one of them settle; the others stay as they were sent
InFlightKept(reqs, reqs2) ==
    \/ reqs2 = reqs
    \/ Grown(reqs, reqs2)
    \/ \E i \in DOMAIN reqs : reqs2 = RemoveAt(reqs, i)

\* C17: no step changes a request in flight, and a request sent holds the
\* items and quantities the cart has when it is sent
C17_SnapshotIsDecoupled ==
    [][ /\ InFlightKept(appReqs, appReqs')
        /\ Grown(appReqs, appReqs') =>
              LET sent == appReqs'[Len(appReqs')] IN
              /\ Len(sent.cart) = Len(appCart)
              /\ \A i \in DOMAIN appCart :
                    /\ sent.cart[i].id = appCart[i].id
                    /\ sent.cart[i].qty = Num(appCart[i].qty)
        /\ InFlightKept(jsReqs, jsReqs')
        /\ Grown(jsReqs, jsReqs') =>
              LET sent == jsReqs'[Len(jsReqs')] IN
              /\ Len(sent.items) = Len(jsCart)
              /\ \A i \in DOMAIN jsCart :
                    /\ sent.items[i].book = jsBooks[jsCart[i].book]
                    /\ sent.items[i].quantity = Num(jsCart[i].quantity) ]_vars

\* script.js: a request is in flight that was sent with one item of
\* quantity 1, and the cart now holds that book with quantity 2 and another
C17_Witness ==
    /\ variant = "script"
    /\ Len(jsReqs) = 1
    /\ Len(jsReqs[1].items) = 1
    /\ jsReqs[1].items[1].quantity = Num(1)
    /\ Len(jsCart) = 2
    /\ jsBooks[jsCart[1].book] = jsReqs[1].items[1].book
    /\ jsCart[1].quantity = 2

(***************************************************************************)
(* C18.  The order payload of each submit holds exactly one entry per cart *)
(* item, with that item's book id, title, author, quantity and unit price, *)
(* and a computed total equal to the cart's total at the moment of submit. *)
(***************************************************************************)
\* C18 as claimed, for the FormData of App and the JSON body of script.js
C18_PayloadHasItemsAndTotal ==
    [][ /\ (AppSubmitOrder /\ Len(appCart) > 0) =>
              LET sent == appReqs'[Len(appReqs')] IN
              /\ Len(sent.cart) = Len(appCart)
              /\ \A i \in DOMAIN appCart :
                    /\ sent.cart[i].id = appCart[i].id
                    /\ sent.cart[i].title = appCart[i].title
                    /\ sent.cart[i].author = appCart[i].author
                    /\ sent.cart[i].qty = Num(appCart[i].qty)
                    /\ sent.cart[i].price = appCart[i].price
              /\ "total" \in DOMAIN sent
              /\ sent.total = Num(AppSubtotal(appCart))
        /\ (JsSubmit /\ Len(jsCart) > 0) =>
              LET sent == jsReqs'[Len(jsReqs')] IN
              /\ Len(sent.items) = Len(jsCart)
              /\ \A i \in DOMAIN jsCart :
                    /\ sent.items[i].book.id = jsBooks[jsCart[i].book].id
                    /\ sent.items[i].book.title = jsBooks[jsCart[i].book].title
                    /\ sent.items[i].book.author = jsBooks[jsCart[i].book].author
                    /\ sent.items[i].book.price = jsBooks[jsCart[i].book].price
                    /\ sent.items[i].quantity = Num(jsCart[i].quantity)
              /\ "total" \in DOMAIN sent
              /\ sent.total = Num(JsRenderTotal(jsBooks, jsCart, 0)) ]_vars

(***************************************************************************)
(* C19.  setQuantity(bookId, q) and remove(bookId) called with a bookId    *)
(* that is not in the cart leave the cart unchanged: same items, same      *)
(* quantities, same order.                                                 *)
(***************************************************************************)
\* C19: updateQty / removeFromCart of App and setQty / removeItem of
\* BookPreorderSite are no-ops on a book id that is not in the cart
C19_AbsentIdIsNoOp ==
    [][ \A id \in CallIds :
          /\ \A q \in CallQtys :
                (AppUpdateQtyCall(id, q) /\ ~HasId(AppItems, id)) => appCart' = appCart
          /\ (AppRemoveFromCartCall(id) /\ ~HasId(AppItems, id)) => appCart' = appCart
          /\ \A q \in CallQtys :
                (BpsSetQtyCall(id, q) /\ ~HasId(BpsItems, id)) =>
                    bpsCart' = bpsCart /\ bpsTotal' = bpsTotal
          /\ (BpsRemoveItemCall(id) /\ ~HasId(BpsItems, id)) =>
                bpsCart' = bpsCart /\ bpsTotal' = bpsTotal ]_vars

\* setQty has just been called for a book that is not in a cart of two
\* other books, one of them with quantity 2
C19_Witness ==
    /\ variant = "BookPreorderSite"
    /\ lastCall # NoCall
    /\ lastCall[1].op = "setQty"
    /\ ~HasId(BpsItems, lastCall[1].id)
    /\ Len(bpsCart) = 2
    /\ bpsCart[1].qty = 2

(***************************************************************************)
(* C20.  Every failure outcome of the catalog fetch and of the order       *)
(* submission (rejected request, non-OK status, unparsable body, or a      *)
(* well-formed response that is an error object) ends in a state where a   *)
(* failure signal is shown and the view is still operable; none is treated *)
(* as success, none crashes the view.                                      *)
(***************************************************************************)
\* C20 as claimed, for both fetches of App and of script.js
C20_EveryFailureIsSignalled ==
    [][ /\ \A i \in DOMAIN appFetches :
              /\ \A msg \in AppFetchErrors :
                    AppFetchFail(i, msg) => appError' # "null" /\ ~AppCrashed'
              /\ AppFetchObject(i) => appError' # "null" /\ ~AppCrashed'
        /\ (JsFetchFail \/ \E st \in {"ok", "notok"} : JsFetchObject(st)) =>
              jsFetch' = "failed"
        /\ \A o \in Outcomes : ~Accepted(o) =>
              /\ \A i \in DOMAIN appReqs : AppSubmitResolve(i, o) =>
                    /\ alert' \in FailureNotices
                    /\ appSuccessMsg' = ""
                    /\ ~AppCrashed'
              /\ \A i \in DOMAIN jsReqs : JsSubmitResolve(i, o) =>
                    alert' \in FailureNotices ]_vars

(***************************************************************************)
(* C21.  No cart content is lost unsubmitted: whenever a successful        *)
(* submission response empties the cart, every item (and quantity) in the  *)
(* cart at that moment was part of the snapshot sent with that request,    *)
(* also when items were added or quantities changed while the request was  *)
(* in flight.                                                              *)
(***************************************************************************)
\* C21 as claimed: at the step where an accepted response clears the cart,
\* each cart item is in the body of the request that is being answered,
\* with the same quantity
C21_NothingLostUnsubmitted ==
    [][ \A o \in Outcomes :
          /\ \A i \in DOMAIN appReqs :
                (AppSubmitResolve(i, o) /\ ~AppThrows(o)) =>
                   \A k \in DOMAIN appCart :
                      \E j \in DOMAIN appReqs[i].cart :
                         /\ appReqs[i].cart[j].id = appCart[k].id
                         /\ appReqs[i].cart[j].qty = Num(appCart[k].qty)
          /\ \A i \in DOMAIN jsReqs :
                (JsSubmitResolve(i, o) /\ ~JsThrows(o)) =>
                   \A k \in DOMAIN jsCart :
                      \E j \in DOMAIN jsReqs[i].items :
                         /\ jsReqs[i].items[j].book = jsBooks[jsCart[k].book]
                         /\ jsReqs[i].items[j].quantity =
                               Num(jsCart[k].quantity) ]_vars

(***************************************************************************)
(* C22.  In App, when the sheetId changes several times and the catalog    *)
(* fetches resolve in any order, once all of them have resolved the held   *)
(* book list and error state are those of the response for the latest      *)
(* sheetId (a late response for an older sheetId never overwrites a newer  *)
(* one), and `loading` is true in every state in which a fetch is still in *)
(* flight.                                                                 *)
(***************************************************************************)
\* the books and the error are those of the answer for the sheet id held
LatestSheetShown ==
    LET a == SheetAnswer(appSheetId) IN
    IF a.kind = "list" THEN appBooks = a.data /\ appError = "null"
    ELSE appError = a.msg

\* C22 as claimed
C22_LatestSheetWins ==
    AppMounted =>
       /\ appFetches # <<>> => appLoading
       /\ (appFetches = <<>> /\ appSheetId # "") => LatestSheetShown

\* the first half of C22 alone: loading while a fetch is in flight
C22_LoadingWhileInFlight == (AppMounted /\ appFetches # <<>>) => appLoading

\* the second half of C22 alone: the latest sheet id's answer is what is held
C22_SettledOnLatest ==
    (AppMounted /\ appFetches = <<>> /\ appSheetId # "") => LatestSheetShown

(***************************************************************************)
(* C23.  The cart state updaters are pure: applying addToCart's updater to *)
(* a cart value returns the new cart without modifying the items of the    *)
(* previous cart value, so applying the same updater twice to the same     *)
(* previous cart (as React may do) yields the same result with the         *)
(* quantity raised by exactly 1.  This holds for both App.addToCart and    *)
(* BookPreorderSite.addToCart.                                             *)
(***************************************************************************)
\* the book id of a cart item of either component
UpdItemId(x) == IF updKind = "App" THEN x.id ELSE x.book.id

\* r is the cart `given` after one addToCart(book): the item of that book
\* has its quantity raised by 1, or the book is a new last item of quantity 1
AddedOnce(given, book, r) ==
    IF \E i \in DOMAIN given : UpdItemId(given[i]) = book.id
    THEN /\ Len(r) = Len(given)
         /\ \A i \in DOMAIN given :
               r[i] = IF UpdItemId(given[i]) = book.id
                      THEN [given[i] EXCEPT !.qty = @ + 1]
                      ELSE given[i]
    ELSE /\ Len(r) = Len(given) + 1
         /\ SubSeq(r, 1, Len(given)) = given
         /\ UpdItemId(r[Len(r)]) = book.id
         /\ r[Len(r)].qty = 1

\* the updater left the items of the cart value it was given as they were,
\* and each value it returned is that cart with the book added once
UpdaterIsPure ==
    /\ UpdView(updObjects, updPrev) = updGiven
    /\ \A k \in DOMAIN updOut :
          AddedOnce(updGiven, updBook, UpdView(updObjects, updOut[k]))

\* C23 as claimed, for both components
C23_AddUpdaterIsPure == variant = "updater" => UpdaterIsPure

\* C23 for BookPreorderSite alone
C23_BpsAddUpdaterIsPure ==
    (variant = "updater" /\ updKind = "BookPreorderSite") => UpdaterIsPure

\* applied once, the updaters return what AppAddUpdater and BpsAddUpdater
\* compute on cart values
UpdFirstApplicationAgrees ==
    [][ (UpdApply /\ updOut = <<>>) =>
           UpdView(updObjects', updOut'[1]) =
              IF updKind = "App" THEN AppAddUpdater(updGiven, updBook)
              ELSE BpsAddUpdater(updGiven, updBook) ]_vars

(***************************************************************************)
(* C24.  In App, `submitting` is true exactly while an order request is in *)
(* flight: it is set before the request is sent, every submit attempt      *)
(* eventually returns it to false whether the request succeeds, fails or   *)
(* its body cannot be parsed, and it is never left true after the attempt  *)
(* resolves, so the submit control always becomes available again for a    *)
(* retry.                                                                  *)
(***************************************************************************)
\* the submit button is on the page and enabled
SubmitAvailable == AppMounted /\ ~appSubmitting

\* `submitting` is true exactly while an order request is in flight
SubmittingWhileInFlight == appSubmitting <=> appReqs # <<>>

\* C24 as claimed
C24_SubmittingEndsWithAttempt ==
    /\ []SubmittingWhileInFlight
    /\ appSubmitting ~> SubmitAvailable

\* C24 in the sessions where the view stays mounted
C24_UnlessUnmounted ==
    ([]AppMounted) => C24_SubmittingEndsWithAttempt

\* the first half of C24 alone
C24_ExactlyWhileInFlight == []SubmittingWhileInFlight

====
